---- MODULE Spec2Model ----
(***************************************************************************)
(* Reaction-time game for the micro:bit (src/main.cpp).                    *)
(*                                                                         *)
(* The program is one sequential thread (main -> runGame) driving an       *)
(* SSD1306 OLED, the built-in LED matrix, two LED pins and button A.  The  *)
(* environment supplies the button level, the millisecond clock and the    *)
(* values of rand().                                                       *)
(*                                                                         *)
(* Specifications:                                                         *)
(*   Spec        the game, from the entry of runGame to its return         *)
(*   FairSpec    Spec plus the fairness of the single control thread       *)
(*   CallSpec    one draw call, over every argument in range               *)
(*   DrawSpec    sequences of draw calls                                   *)
(*   PatternSpec one call of displayRandomPattern, over every coordinate   *)
(***************************************************************************)
EXTENDS Integers, Sequences, FiniteSets

VARIABLES
    pc,                 \* position of the control thread
    round,              \* runGame's loop variable
    totalReactionTime,  \* runGame's running sum
    startTime,          \* performReactionRound's local
    reactionTime,       \* handleButtonPress's local
    now,                \* system_timer_current_time(), in ms
    buttonA,            \* what uBit.buttonA.isPressed() reads
    P0, P2,             \* level the program drives on the red / green LED pin
    oled,               \* the OLED: last frame received, number of transfers
    display,            \* calls made to uBit.display, in order
    rounds,             \* arguments of the performReactionRound calls, in order
    drawCall,           \* the draw call in progress or last made, with its arguments
    drawCalls,          \* number of draw calls made
    randDelayAddr       \* the value the function designator randDelay converts to

vars == <<pc, round, totalReactionTime, startTime, reactionTime, now, buttonA,
          P0, P2, oled, display, rounds, drawCall, drawCalls, randDelayAddr>>

----------------------------------------------------------------------------
(* Program constants *)

OLED_WIDTH == 128

OLED_HEIGHT == 64

AVG_RTIME == 250

NUM_ROUNDS == 4

\* 0x40, the SSD1306 "data follows" tag written to buf[0]
DATA_TAG == 64

(* Bounds of the model *)

\* rand() returns a value in 0..MaxPatternRand in PatternSpec
MaxPatternRand == 49

\* the value the function designator randDelay converts to is in 0..MaxFnAddr
MaxFnAddr == 1

\* the clock stops advancing inside a wait once this much time has elapsed
MaxReaction == 251

\* length of the call sequences of DrawSpec
MaxDraws == 5

\* the values rand() returns in the game: they give the delays 1000 and 5000
\* and the coordinates 1 and 50
GameRand == {0, 49}

\* time one iteration of the polling loop may take
PollTicks == {0, AVG_RTIME, AVG_RTIME + 1}

\* arguments of the calls of DrawSpec
DrawXs == {0, 5, 7, 8, OLED_WIDTH - 1}

DrawYs == {0, 7, 8, OLED_HEIGHT - 1}

DrawValues == {0, 1, 165, 255}

----------------------------------------------------------------------------
(* Bytes *)

Bit(v, b) == (v \div (2 ^ b)) % 2

\* a | b on uint8_t
BitOr8(a, b) ==
    LET f[k \in 0..8] ==
            IF k = 8 THEN 0
            ELSE (IF Bit(a, k) = 1 \/ Bit(b, k) = 1 THEN 2 ^ k ELSE 0) + f[k + 1]
    IN  f[0]

\* ManagedBuffer buf(length): the buffer is zero-filled
ManagedBuffer(length) ==
    [length |-> length, payload |-> [i \in 0..(length - 1) |-> 0]]

\* oled->sendData(bytes, length): one transfer of the first `length` bytes
sendData(bytes, length) ==
    [frame  |-> IF DOMAIN bytes = 0..(length - 1) THEN bytes
                ELSE [i \in 0..(length - 1) |-> bytes[i]],
     writes |-> oled.writes + 1]

\* the OLED before any data transfer
NoFrame == [i \in {} |-> 0]

NoCall == [op |-> "none", x |-> 0, y |-> 0, v |-> 0]

PixelCall(x, y) == [op |-> "drawPixel", x |-> x, y |-> y, v |-> 0]

HexCall(v) == [op |-> "displayHexImage", x |-> 0, y |-> 0, v |-> v]

ClearCall == [op |-> "clearScreen", x |-> 0, y |-> 0, v |-> 0]

----------------------------------------------------------------------------
(* The draw operations.  Each yields the state of the OLED after the call. *)

PixelIndex_noBandShift(x, y) == x + y * OLED_WIDTH + 1

\* the index drawPixel writes: x + (y >> 3) * OLED_WIDTH + 1
PixelIndex(x, y) == x + (y \div 8) * OLED_WIDTH + 1

\* the mask drawPixel ORs in: 1 << (x & 7)
PixelMask(x) == 2 ^ (x % 8)

\* ((OLED_WIDTH * OLED_HEIGHT) / 8) + 1, the length every buffer is given
BufferLength == ((OLED_WIDTH * OLED_HEIGHT) \div 8) + 1

drawPixel_persistent(x, y) ==
    LET base == IF oled.writes = 0
                THEN ManagedBuffer(BufferLength)
                ELSE [length |-> BufferLength, payload |-> oled.frame]
        buf1 == [base EXCEPT !.payload[0] = DATA_TAG]
        idx  == PixelIndex(x, y)
        buf2 == [buf1 EXCEPT !.payload[idx] = BitOr8(@, PixelMask(x))]
    IN  sendData(buf2.payload, buf2.length)

drawPixel_bitFromY(x, y) ==
    LET buf0 == ManagedBuffer(BufferLength)
        buf1 == [buf0 EXCEPT !.payload[0] = DATA_TAG]
        idx  == PixelIndex(x, y)
        buf2 == [buf1 EXCEPT !.payload[idx] = BitOr8(@, 2 ^ (y % 8))]
    IN  sendData(buf2.payload, buf2.length)

drawPixel_noOffset(x, y) ==
    LET buf0 == ManagedBuffer(BufferLength)
        buf1 == [buf0 EXCEPT !.payload[0] = DATA_TAG]
        idx  == x + (y \div 8) * OLED_WIDTH
        buf2 == [buf1 EXCEPT !.payload[idx] = BitOr8(@, PixelMask(x))]
    IN  sendData(buf2.payload, buf2.length)

drawPixel(x, y) ==
    LET buf0 == ManagedBuffer(BufferLength)
        buf1 == [buf0 EXCEPT !.payload[0] = DATA_TAG]
        idx  == PixelIndex(x, y)
        \* buf[idx] |= mask; an index outside the buffer is a write to
        \* memory the frame does not hold
        buf2 == IF idx \in 0..(BufferLength - 1)
                THEN [buf1 EXCEPT !.payload[idx] = BitOr8(@, PixelMask(x))]
                ELSE buf1
    IN  sendData(buf2.payload, buf2.length)

displayHexImage_fromZero(hexValue) ==
    LET buf0 == ManagedBuffer(BufferLength)
        buf1 == [buf0 EXCEPT !.payload[0] = DATA_TAG]
        \* the loop starts at 0
        buf2 == [buf1 EXCEPT !.payload =
                    [i \in 0..(BufferLength - 1) |->
                        IF 0 <= i /\ i < BufferLength THEN hexValue
                        ELSE buf1.payload[i]]]
    IN  sendData(buf2.payload, buf2.length)

displayHexImage(hexValue) ==
    LET buf0 == ManagedBuffer(BufferLength)
        buf1 == [buf0 EXCEPT !.payload[0] = DATA_TAG]
        \* for (i = 1; i < buf.length(); i++) buf[i] = hexValue
        buf2 == [buf1 EXCEPT !.payload =
                    [i \in 0..(BufferLength - 1) |->
                        IF 1 <= i /\ i < BufferLength THEN hexValue
                        ELSE buf1.payload[i]]]
    IN  sendData(buf2.payload, buf2.length)

clearScreen == displayHexImage(0)

----------------------------------------------------------------------------
(* The built-in display: the calls made to uBit.display *)

ScrollText(s) == [call |-> "scroll", text |-> s, value |-> 0]

PrintText(s) == [call |-> "print", text |-> s, value |-> 0]

ScrollInt(n) == [call |-> "scrollInt", text |-> "", value |-> n]

PrintImage(name) == [call |-> "printImage", text |-> name, value |-> 0]

showCountdown == <<ScrollText("3 2 1"), PrintText("GO!")>>

----------------------------------------------------------------------------
(* Helpers of the game *)

\* int / int in C++: the quotient truncated toward zero
CDiv(a, b) ==
    IF (a >= 0) = (b > 0) THEN (IF a >= 0 THEN a ELSE -a) \div (IF b > 0 THEN b ELSE -b)
    ELSE -((IF a >= 0 THEN a ELSE -a) \div (IF b > 0 THEN b ELSE -b))

\* the time randDelay sleeps, r being the value of rand()
randDelay(r) == ((r % 5) + 1) * 1000

\* r is the value of rand(), which is >= 0
getRandCoordinate(r) == (r % 50) + 1

waitButtonPress_noWait(pressed) == TRUE

\* whether the loop of waitButtonPress ends, given what isPressed() read
waitButtonPress(pressed) == pressed

clearLEDs_onlyP0 == [P0 |-> 0, P2 |-> P2]

clearLEDs == [P0 |-> 0, P2 |-> 0]

easyRound_allRounds(r) == r <= NUM_ROUNDS

\* displayRandomPattern's test: first half of the game
easyRound(r) == r <= CDiv(NUM_ROUNDS, 2)

roundLoop_oneMore(r) == r <= NUM_ROUNDS + 1

\* runGame's loop condition
roundLoop(r) == r <= NUM_ROUNDS

meanOf_roundedUp(total) == CDiv(total + NUM_ROUNDS - 1, NUM_ROUNDS)

\* displayMean: int meanReactionTime = totalReactionTime / NUM_ROUNDS
meanOf(total) == CDiv(total, NUM_ROUNDS)

\* displayMean: the image chosen for the mean
facialExpression(mean) == IF mean <= AVG_RTIME THEN "happy_emoji" ELSE "sad_emoji"

----------------------------------------------------------------------------
(* The game: runGame, one action per step of the control thread *)

GameVarsInit ==
    /\ round = 0
    /\ totalReactionTime = 0
    /\ startTime = 0
    /\ reactionTime = 0
    /\ now = 0
    /\ buttonA = FALSE
    /\ P0 = 0
    /\ P2 = 0
    /\ display = <<>>
    /\ rounds = <<>>

OledInit ==
    /\ oled = [frame |-> NoFrame, writes |-> 0]
    /\ drawCall = NoCall
    /\ drawCalls = 0

Init ==
    /\ pc = "runGame"
    /\ GameVarsInit
    /\ OledInit
    /\ randDelayAddr \in 0..MaxFnAddr

\* runGame: int totalReactionTime = 0; showCountdown(); round = 1
RunGameStart ==
    /\ pc = "runGame"
    /\ totalReactionTime' = 0
    /\ display' = display \o showCountdown
    /\ round' = 1
    /\ pc' = "loop"
    /\ UNCHANGED <<startTime, reactionTime, now, buttonA, P0, P2, oled, rounds,
                   drawCall, drawCalls,
                   randDelayAddr>>

\* runGame: the loop test; performReactionRound is entered or the loop is left
RunGameLoop ==
    /\ pc = "loop"
    /\ IF roundLoop(round)
       THEN /\ rounds' = Append(rounds, round)
            /\ pc' = "delay"
       ELSE /\ rounds' = rounds
            /\ pc' = "mean"
    /\ UNCHANGED <<round, totalReactionTime, startTime, reactionTime, now, buttonA,
                   P0, P2, oled, display, drawCall, drawCalls,
                   randDelayAddr>>

\* displayRandomPattern: randDelay(); uBit.sleep(randDelay);
\* randDelay sleeps its delay (the value it returns is not used); the second
\* sleep is given the function designator, a value the build fixes
RandDelaySleep(R) ==
    /\ pc = "delay"
    /\ \E r \in R : now' = now + randDelay(r) + randDelayAddr
    /\ pc' = "pattern"
    /\ UNCHANGED <<round, totalReactionTime, startTime, reactionTime, buttonA,
                   P0, P2, oled, display, rounds, drawCall, drawCalls,
                   randDelayAddr>>

\* displayRandomPattern: the stimulus frame
DisplayPattern(R) ==
    /\ pc = "pattern"
    /\ IF easyRound(round)
       THEN /\ oled' = displayHexImage(255)
            /\ drawCall' = HexCall(255)
       ELSE \E rx \in R, ry \in R :
               LET randX == getRandCoordinate(rx)
                   randY == getRandCoordinate(ry)
               IN  /\ oled' = drawPixel(randX, randY)
                   /\ drawCall' = PixelCall(randX, randY)
    /\ drawCalls' = drawCalls + 1
    /\ pc' = "start"
    /\ UNCHANGED <<round, totalReactionTime, startTime, reactionTime, now, buttonA,
                   P0, P2, display, rounds,
                   randDelayAddr>>

\* performReactionRound: int startTime = system_timer_current_time()
SampleStartTime ==
    /\ pc = "start"
    /\ startTime' = now
    /\ pc' = "wait"
    /\ UNCHANGED <<round, totalReactionTime, reactionTime, now, buttonA, P0, P2,
                   oled, display, rounds, drawCall, drawCalls,
                   randDelayAddr>>

\* waitButtonPress: one test of the loop condition; an iteration that does
\* not end the loop takes some time
WaitButtonPress ==
    /\ pc = "wait"
    /\ IF waitButtonPress(buttonA)
       THEN /\ pc' = "handle"
            /\ now' = now
       ELSE /\ pc' = "wait"
            /\ \E d \in PollTicks :
                  /\ now + d - startTime <= MaxReaction
                  /\ now' = now + d
    /\ UNCHANGED <<round, totalReactionTime, startTime, reactionTime, buttonA,
                   P0, P2, oled, display, rounds, drawCall, drawCalls,
                   randDelayAddr>>

\* handleButtonPress: the reaction time and the LED
HandleButtonPress ==
    /\ pc = "handle"
    /\ reactionTime' = now - startTime
    /\ IF reactionTime' <= AVG_RTIME
       THEN /\ P2' = 1
            /\ P0' = P0
       ELSE /\ P0' = 1
            /\ P2' = P2
    /\ pc' = "scroll"
    /\ UNCHANGED <<round, totalReactionTime, startTime, now, buttonA, oled,
                   display, rounds, drawCall, drawCalls,
                   randDelayAddr>>

\* handleButtonPress: scroll(reactionTime); totalReactionTime += reactionTime;
\* clearLEDs()
HandleButtonPressEnd ==
    /\ pc = "scroll"
    /\ display' = Append(display, ScrollInt(reactionTime))
    /\ totalReactionTime' = totalReactionTime + reactionTime
    /\ P0' = clearLEDs.P0
    /\ P2' = clearLEDs.P2
    /\ pc' = "clear"
    /\ UNCHANGED <<round, startTime, reactionTime, now, buttonA, oled, rounds,
                   drawCall, drawCalls,
                   randDelayAddr>>

\* performReactionRound: clearScreen(); then runGame's ++round
ClearScreenStep ==
    /\ pc = "clear"
    /\ oled' = clearScreen
    /\ drawCall' = ClearCall
    /\ drawCalls' = drawCalls + 1
    /\ round' = round + 1
    /\ pc' = "loop"
    /\ UNCHANGED <<totalReactionTime, startTime, reactionTime, now, buttonA,
                   P0, P2, display, rounds,
                   randDelayAddr>>

\* displayMean(totalReactionTime), then runGame returns
DisplayMean ==
    /\ pc = "mean"
    /\ LET meanReactionTime == meanOf(totalReactionTime)
       IN  display' = display \o <<ScrollText("T"), ScrollInt(meanReactionTime),
                                   PrintImage(facialExpression(meanReactionTime))>>
    /\ pc' = "done"
    /\ UNCHANGED <<round, totalReactionTime, startTime, reactionTime, now, buttonA,
                   P0, P2, oled, rounds, drawCall, drawCalls,
                   randDelayAddr>>

GamePcs == {"runGame", "loop", "delay", "pattern", "start", "wait", "handle",
            "scroll", "clear", "mean"}

\* the player: button A goes down or up at any time while the game runs
PressA ==
    /\ pc \in GamePcs
    /\ ~buttonA
    /\ buttonA' = TRUE
    /\ UNCHANGED <<pc, round, totalReactionTime, startTime, reactionTime, now,
                   P0, P2, oled, display, rounds, drawCall, drawCalls,
                   randDelayAddr>>

ReleaseA ==
    /\ pc \in GamePcs
    /\ buttonA
    /\ buttonA' = FALSE
    /\ UNCHANGED <<pc, round, totalReactionTime, startTime, reactionTime, now,
                   P0, P2, oled, display, rounds, drawCall, drawCalls,
                   randDelayAddr>>

GameDelay == RandDelaySleep(GameRand)

GamePattern == DisplayPattern(GameRand)

Next ==
    \/ RunGameStart
    \/ RunGameLoop
    \/ GameDelay
    \/ GamePattern
    \/ SampleStartTime
    \/ WaitButtonPress
    \/ HandleButtonPress
    \/ HandleButtonPressEnd
    \/ ClearScreenStep
    \/ DisplayMean
    \/ PressA
    \/ ReleaseA

Spec == Init /\ [][Next]_vars

\* the control thread is the only thread and is never descheduled for good;
\* the loop of waitButtonPress polls far more often than the button changes,
\* so a button that keeps being pressed is read pressed
ThreadStep ==
    \/ RunGameStart
    \/ RunGameLoop
    \/ GameDelay
    \/ GamePattern
    \/ SampleStartTime
    \/ HandleButtonPress
    \/ HandleButtonPressEnd
    \/ ClearScreenStep
    \/ DisplayMean

WaitExit == WaitButtonPress /\ pc' = "handle"

FairSpec == Spec /\ WF_vars(ThreadStep) /\ SF_vars(WaitExit)

----------------------------------------------------------------------------
(* One draw call, over every argument in range *)

\* the call made with the arguments of c
Draw(c) ==
    CASE c.op = "drawPixel" -> drawPixel(c.x, c.y)
      [] c.op = "displayHexImage" -> displayHexImage(c.v)
      [] c.op = "clearScreen" -> clearScreen

AllCalls ==
    {PixelCall(x, y) : x \in 0..(OLED_WIDTH - 1), y \in 0..(OLED_HEIGHT - 1)}
        \cup {HexCall(v) : v \in 0..255}
        \cup {ClearCall}

CallInit ==
    /\ pc = "call"
    /\ GameVarsInit
    /\ oled = [frame |-> NoFrame, writes |-> 0]
    /\ drawCalls = 0
    /\ drawCall \in AllCalls
    /\ randDelayAddr = 0

CallReturns ==
    /\ oled' = Draw(drawCall)
    /\ drawCalls' = drawCalls + 1
    /\ pc' = "returned"
    /\ UNCHANGED <<round, totalReactionTime, startTime, reactionTime, now, buttonA,
                   P0, P2, display, rounds, drawCall, randDelayAddr>>

CallDrawPixel == pc = "call" /\ drawCall.op = "drawPixel" /\ CallReturns

CallDisplayHexImage == pc = "call" /\ drawCall.op = "displayHexImage" /\ CallReturns

CallClearScreen == pc = "call" /\ drawCall.op = "clearScreen" /\ CallReturns

CallNext == CallDrawPixel \/ CallDisplayHexImage \/ CallClearScreen

CallSpec == CallInit /\ [][CallNext]_vars

----------------------------------------------------------------------------
(* Sequences of draw calls *)

DrawInit ==
    /\ pc = "draw"
    /\ GameVarsInit
    /\ OledInit
    /\ randDelayAddr = 0

DrawStep(c) ==
    /\ pc = "draw"
    /\ drawCalls < MaxDraws
    /\ oled' = Draw(c)
    /\ drawCall' = c
    /\ drawCalls' = drawCalls + 1
    /\ UNCHANGED <<pc, round, totalReactionTime, startTime, reactionTime, now,
                   buttonA, P0, P2, display, rounds, randDelayAddr>>

DrawPixelOp ==
    /\ pc = "draw"
    /\ \E x \in DrawXs, y \in DrawYs : DrawStep(PixelCall(x, y))

DisplayHexImageOp ==
    /\ pc = "draw"
    /\ \E v \in DrawValues : DrawStep(HexCall(v))

ClearScreenOp ==
    /\ pc = "draw"
    /\ DrawStep(ClearCall)

DrawNext == DrawPixelOp \/ DisplayHexImageOp \/ ClearScreenOp

DrawSpec == DrawInit /\ [][DrawNext]_vars

----------------------------------------------------------------------------
(* One call of displayRandomPattern(round), over every coordinate *)

PatternInit ==
    /\ pc = "delay"
    /\ round \in 1..NUM_ROUNDS
    /\ totalReactionTime = 0
    /\ startTime = 0
    /\ reactionTime = 0
    /\ now = 0
    /\ buttonA = FALSE
    /\ P0 = 0
    /\ P2 = 0
    /\ display = showCountdown
    /\ rounds = <<round>>
    /\ OledInit
    /\ randDelayAddr \in 0..MaxFnAddr

PatternRand == 0..MaxPatternRand

\* the delay does not decide the frame: it is drawn as in the game
PatternDelay == RandDelaySleep(GameRand)

PatternShow == DisplayPattern(PatternRand)

PatternNext == PatternDelay \/ PatternShow

PatternSpec == PatternInit /\ [][PatternNext]_vars

----------------------------------------------------------------------------
(* Properties *)

\* number of bytes of a frame: (128 * 64) / 8 + 1
FrameLength == ((128 * 64) \div 8) + 1

DataIndices == 1..(FrameLength - 1)

AllBytes(f, v) == \A i \in DataIndices : f[i] = v

\* exactly one bit of the data bytes is 1
OneBitSet(f) ==
    LET set == {i \in DataIndices : f[i] # 0}
    IN  /\ Cardinality(set) = 1
        /\ \A i \in set : f[i] \in {2 ^ b : b \in 0..7}

\* C1: for every x in [0,128) and y in [0,64), the frame drawPixel(x, y)
\* transmits has bit (x & 7) of byte 1 + x + (y>>3)*128 set and every other
\* bit of every data byte 0; drawPixel(5, 0) sets exactly bit 5 of byte 6.
C1_DrawPixelSetsOneBit ==
    (pc = "returned" /\ drawCall.op = "drawPixel") =>
        LET x == drawCall.x
            y == drawCall.y
            byte == 1 + x + (y \div 8) * 128
        IN  /\ \A b \in 0..7 :
                  Bit(oled.frame[byte], b) = (IF b = x % 8 THEN 1 ELSE 0)
            /\ \A i \in DataIndices \ {byte} : oled.frame[i] = 0
            /\ (x = 5 /\ y = 0) => (byte = 6 /\ oled.frame[6] = 32)

C1_Witness ==
    /\ pc = "returned"
    /\ drawCall = PixelCall(5, 0)
    /\ Bit(oled.frame[6], 5) = 1

\* C2: for every 8-bit v, the frame displayHexImage(v) transmits has every
\* data byte equal to v and byte 0 equal to 0x40; clearScreen() sends the
\* all-pixels-off pattern.
C2_FillUniform ==
    /\ (pc = "returned" /\ drawCall.op = "displayHexImage") =>
          (oled.frame[0] = 64 /\ AllBytes(oled.frame, drawCall.v))
    /\ (pc = "returned" /\ drawCall.op = "clearScreen") =>
          (oled.frame[0] = 64 /\ AllBytes(oled.frame, 0))

C2_Witness ==
    /\ pc = "returned"
    /\ drawCall = HexCall(255)
    /\ oled.frame[1] = 255
    /\ oled.frame[FrameLength - 1] = 255

\* C3: after any sequence of draw operations, every buffer handed to the
\* display has length exactly 1025 and its byte 0 is the tag 0x40.
C3_LengthAndTag ==
    oled.writes > 0 =>
        /\ DOMAIN oled.frame = 0..1024
        /\ Cardinality(DOMAIN oled.frame) = FrameLength
        /\ oled.frame[0] = 64

C3_Witness ==
    /\ pc = "draw"
    /\ oled.writes = MaxDraws
    /\ drawCall = PixelCall(0, 0)

\* the frame a call's arguments describe
FrameOfCall(c) ==
    [i \in 0..(FrameLength - 1) |->
        IF i = 0 THEN 64
        ELSE CASE c.op = "drawPixel" ->
                    IF i = 1 + c.x + (c.y \div 8) * 128 THEN 2 ^ (c.x % 8) ELSE 0
               [] c.op = "displayHexImage" -> c.v
               [] c.op = "clearScreen" -> 0]

\* C4: each draw call performs exactly one peripheral write, and the frame
\* a call sends is determined by that call's arguments alone, whatever the
\* calls made before it.
C4_FreshFramePerCall ==
    /\ oled.writes = drawCalls
    /\ drawCalls > 0 => oled.frame = FrameOfCall(drawCall)

C4_Witness ==
    /\ pc = "draw"
    /\ drawCalls = MaxDraws
    /\ drawCall = PixelCall(5, 0)
    /\ oled.frame[6] = 32

\* C5: control leaves the wait only in a step where button A reads pressed,
\* and a step taken in the wait while the button reads not pressed stays in
\* the wait: nothing is recorded, no round starts, no mean is displayed.
C5_NoCancellation ==
    /\ [][/\ (pc = "wait" /\ pc' # "wait") => (buttonA /\ pc' = "handle")
          /\ (pc = "wait" /\ ~buttonA) =>
                /\ pc' = "wait"
                /\ totalReactionTime' = totalReactionTime
                /\ display' = display
                /\ round' = round
                /\ rounds' = rounds]_vars
    /\ []((pc = "wait" /\ [](~buttonA)) => [](pc = "wait"))

C5_Witness ==
    /\ pc = "wait"
    /\ ~buttonA
    /\ now - startTime = AVG_RTIME + 1
    /\ round = 1

\* C6: every drawPixel(x, y) call of displayRandomPattern has x in [0,128)
\* and y in [0,64), both in 1..50, so the byte index written lies in
\* [1, 1024].
C6_PixelInRange ==
    drawCall.op = "drawPixel" =>
        /\ drawCall.x \in 0..127 /\ drawCall.y \in 0..63
        /\ drawCall.x \in 1..50 /\ drawCall.y \in 1..50
        /\ PixelIndex(drawCall.x, drawCall.y) \in 1..1024
        /\ PixelIndex(drawCall.x, drawCall.y) = drawCall.x + (drawCall.y \div 8) * 128 + 1

C6_Witness ==
    /\ pc = "start"
    /\ drawCall = PixelCall(50, 50)
    /\ oled.frame[819] = 4

MeanCalls(d) == {i \in 1..Len(d) : d[i] = ScrollText("T")}

\* button A comes to read pressed during every wait
PressedInEveryWait == [](pc = "wait" => <>(pc = "wait" /\ buttonA))

\* C7: if button A eventually reads pressed during every wait, runGame
\* terminates; it runs performReactionRound exactly 4 times, with round =
\* 1, 2, 3, 4 in that order, then displayMean exactly once, and never
\* displays the mean before the fourth round has completed.
C7_FourRoundsThenMean ==
    /\ [](pc = "done" => (rounds = <<1, 2, 3, 4>> /\ Cardinality(MeanCalls(display)) = 1))
    /\ [](\A i \in 1..Len(rounds) : rounds[i] = i)
    /\ [](MeanCalls(display) # {} =>
            (rounds = <<1, 2, 3, 4>> /\ oled.writes = 8 /\ pc = "done"))
    /\ (PressedInEveryWait => <>(pc = "done"))

C7_Witness ==
    /\ pc = "done"
    /\ rounds = <<1, 2, 3, 4>>
    /\ totalReactionTime = 4 * (AVG_RTIME + 1)

\* C8: in every round the stimulus frame is transmitted (all-on in rounds 1
\* and 2, a single pixel in rounds 3 and 4), then the start time is sampled,
\* then the wait, then the reaction time is handled, then an all-zero frame
\* is transmitted: the transfers alternate stimulus / all-zero, and the last
\* frame before a round ends and before the mean is displayed is all-zero.
C8_FrameOrder ==
    /\ pc \in {"start", "wait", "handle", "scroll", "clear"} =>
          /\ oled.writes = 2 * round - 1
          /\ IF round <= 2 THEN AllBytes(oled.frame, 255) ELSE OneBitSet(oled.frame)
          /\ Len(display) - 2 = (IF pc = "clear" THEN round ELSE round - 1)
    /\ pc \in {"loop", "delay", "pattern", "mean", "done"} =>
          /\ oled.writes = 2 * (round - 1)
          /\ oled.writes > 0 => AllBytes(oled.frame, 0)
          /\ pc # "done" => Len(display) - 2 = round - 1
    /\ pc \in {"mean", "done"} => oled.writes = 8
    /\ pc \in {"wait", "handle"} => startTime <= now

C8_Witness ==
    /\ pc = "wait"
    /\ round = 3
    /\ oled.writes = 5
    /\ OneBitSet(oled.frame)

\* C9: handleButtonPress turns on exactly one LED, the green one (P2) iff
\* the reaction time is <= 250, otherwise the red one (P0), and sets both to
\* 0 before it returns; the two LEDs are never both on, and both are off at
\* the end of every round and when the mean is displayed.
C9_OneLED ==
    /\ pc = "scroll" =>
          /\ (P2 = 1) <=> (reactionTime <= 250)
          /\ (P0 = 1) <=> (reactionTime > 250)
          /\ reactionTime = now - startTime
    /\ ~(P0 = 1 /\ P2 = 1)
    /\ pc \in {"clear", "loop", "mean", "done"} => (P0 = 0 /\ P2 = 0)

C9_Witness ==
    /\ pc = "scroll"
    /\ round = 2
    /\ reactionTime = 251
    /\ P0 = 1
    /\ P2 = 0
    /\ totalReactionTime = 250

\* the reaction times scrolled so far, in order
ShownTimes(d) ==
    LET n == IF Len(d) - 2 < NUM_ROUNDS THEN Len(d) - 2 ELSE NUM_ROUNDS
    IN  [i \in 1..(IF n > 0 THEN n ELSE 0) |-> d[i + 2].value]

RECURSIVE SumSeq(_)
SumSeq(q) == IF q = <<>> THEN 0 ELSE Head(q) + SumSeq(Tail(q))

\* C10: totalReactionTime starts at 0 and is increased only by
\* handleButtonPress, by that round's reaction time, once per round; the
\* value displayMean shows is the integer quotient (r1 + r2 + r3 + r4) / 4,
\* and the happy face is shown iff that quotient is <= 250.
C10_MeanOfFour ==
    /\ pc # "runGame" =>
          /\ totalReactionTime = SumSeq(ShownTimes(display))
          /\ Len(ShownTimes(display)) = (IF pc = "clear" THEN round ELSE round - 1)
    /\ pc = "scroll" => reactionTime = now - startTime
    /\ pc = "done" =>
          LET r == ShownTimes(display)
              q == (r[1] + r[2] + r[3] + r[4]) \div 4
          IN  /\ Len(display) = 9
              /\ display[8] = ScrollInt(q)
              /\ display[9] = PrintImage(IF q <= 250 THEN "happy_emoji" ELSE "sad_emoji")

C10_Witness ==
    /\ pc = "done"
    /\ totalReactionTime = 1003
    /\ display[8] = ScrollInt(250)
    /\ display[9] = PrintImage("happy_emoji")

====
